---- MODULE Spec2Model ----
(***************************************************************************)
(* A model of jamesfish's SearchEngine (src/src/search.py) and of the      *)
(* terminal/sign logic of Evaluator.evaluate (src/src/evaluation.py).      *)
(*                                                                         *)
(* The rules engine (python-chess) is external.  It is modelled by a       *)
(* finite game table: a position id stands for everything board.fen()      *)
(* shows (placement, side to move, counters), and each position lists its  *)
(* legal moves in the order board.legal_moves yields them.                 *)
(***************************************************************************)
EXTENDS Integers, Sequences, FiniteSets, TLC

(* ---------------------------------------------------------------------- *)
(* Bounds of the model                                                     *)
(* ---------------------------------------------------------------------- *)
\* largest max_depth a caller of search passes
MaxDepth == 2
\* number of top-level calls (search or negamax) made on one SearchEngine
MaxCalls == 2

(* ---------------------------------------------------------------------- *)
(* Program constants                                                       *)
(* ---------------------------------------------------------------------- *)
\* float('inf'): larger than every score the program computes
Inf == 1000000
NULL_MOVE_R == 3
LMR_DEPTH == 2
LMR_MOVES == 3
DELTA_MARGIN == 150
CAPTURE_MARGIN == 150
SNMP_MARGIN == 120
SNMP_DEPTH == 3
RFP_MARGIN == 120
RFP_DEPTH == 3
NULL_MOVE_DEPTH == 3
MATE_VALUE == 20000
PV_SCORE == 20000
HASH_SCORE == 19000
CAPTURE_SCORE == 10000
KILLER_SCORE == 9000
KILLER_FIRST_BONUS == 1000
VICTIM_FACTOR == 10
LMR_DEEP_INDEX == 6
START_PLY == 1
QS_DEPTH == 4

\* chess.PAWN .. chess.KING are 1 .. 6
PIECE_VALUES ==
  [t \in 1..6 |-> CASE t = 1 -> 100 [] t = 2 -> 320 [] t = 3 -> 330
                    [] t = 4 -> 500 [] t = 5 -> 900 [] t = 6 -> 20000]

WHITE == TRUE
BLACK == FALSE

\* Python's None for a move, and chess.Move.null()
NoMove == [from |-> -1, to |-> -1]
NullMove == [from |-> 0, to |-> 0]

Max(a, b) == IF a >= b THEN a ELSE b

(* ---------------------------------------------------------------------- *)
(* The rules engine: a finite game table                                   *)
(* ---------------------------------------------------------------------- *)
\* one entry of board.legal_moves: the move, the position board.push(move)
\* leads to, board.is_capture(move), board.gives_check(move), the piece type
\* on the from-square and on the to-square (0: empty, as for en passant)
Mv(f, t, d, c, k, a, v) ==
  [mv |-> [from |-> f, to |-> t], dest |-> d, cap |-> c, chk |-> k,
   att |-> a, vic |-> v]
Quiet(f, t, d) == Mv(f, t, d, FALSE, FALSE, 1, 0)
Check(f, t, d) == Mv(f, t, d, FALSE, TRUE, 4, 0)
Capture(f, t, d, a, v) == Mv(f, t, d, TRUE, FALSE, a, v)

Pos(turn, check, score, majors, nullDest, legal) ==
  [turn |-> turn, check |-> check, score |-> score, majors |-> majors,
   nullDest |-> nullDest, legal |-> legal]

Game ==
  [p \in 1..26 |->
    CASE p = 1  -> Pos(BLACK, FALSE, -40, FALSE, 2,
                       << Quiet(1, 2, 2), Check(3, 4, 3) >>)
      [] p = 2  -> Pos(WHITE, FALSE, -30, FALSE, 4, << Quiet(5, 6, 4) >>)
      [] p = 3  -> Pos(WHITE, TRUE, -900, FALSE, 3, << >>)
      [] p = 4  -> Pos(BLACK, FALSE, -35, FALSE, 8, << Quiet(7, 8, 8) >>)
      [] p = 5  -> Pos(WHITE, FALSE, 50, FALSE, 6,
                       << Quiet(9, 10, 6), Check(11, 12, 7) >>)
      [] p = 6  -> Pos(BLACK, FALSE, 45, FALSE, 8, << Quiet(7, 8, 8) >>)
      [] p = 7  -> Pos(BLACK, TRUE, 900, FALSE, 7, << >>)
      [] p = 8  -> Pos(WHITE, FALSE, 0, FALSE, 8, << >>)
      [] p = 9  -> Pos(BLACK, FALSE, 0, FALSE, 9, << >>)
      [] p = 10 -> Pos(WHITE, FALSE, 20, TRUE, 11,
                       << Capture(13, 14, 12, 2, 1), Quiet(15, 16, 13),
                          Quiet(17, 18, 14), Quiet(19, 20, 15) >>)
      [] p = 11 -> Pos(BLACK, FALSE, 20, TRUE, 17, << Quiet(21, 22, 17) >>)
      [] p = 12 -> Pos(BLACK, FALSE, 120, FALSE, 17,
                       << Capture(23, 14, 17, 1, 2), Quiet(21, 22, 18) >>)
      [] p = 13 -> Pos(BLACK, FALSE, 25, FALSE, 17,
                       << Quiet(21, 22, 17), Quiet(25, 26, 18) >>)
      [] p = 14 -> Pos(BLACK, FALSE, 10, FALSE, 17,
                       << Capture(29, 30, 17, 1, 0), Quiet(21, 22, 18) >>)
      [] p = 15 -> Pos(BLACK, FALSE, 15, FALSE, 17, << Quiet(21, 22, 17) >>)
      [] p = 16 -> Pos(WHITE, FALSE, 0, FALSE, 16, << >>)
      [] p = 17 -> Pos(WHITE, FALSE, 30, FALSE, 4, << Quiet(5, 6, 4) >>)
      [] p = 18 -> Pos(WHITE, FALSE, 5, FALSE, 4,
                       << Quiet(5, 6, 4), Quiet(27, 28, 6) >>)
      [] p = 19 -> Pos(WHITE, FALSE, 60, FALSE, 4, << Quiet(5, 6, 4) >>)
      [] p = 20 -> Pos(WHITE, FALSE, 70, FALSE, 4, << Quiet(5, 6, 4) >>)
      [] p = 21 -> Pos(WHITE, FALSE, 0, FALSE, 21,
                       << Capture(31, 32, 22, 1, 1) >>)
      [] p = 22 -> Pos(BLACK, FALSE, 100, FALSE, 22,
                       << Capture(33, 32, 23, 2, 1) >>)
      [] p = 23 -> Pos(WHITE, FALSE, -50, FALSE, 23,
                       << Capture(34, 32, 24, 3, 2) >>)
      [] p = 24 -> Pos(BLACK, FALSE, 50, FALSE, 24,
                       << Capture(35, 32, 25, 4, 3) >>)
      [] p = 25 -> Pos(WHITE, FALSE, -20, FALSE, 25,
                       << Capture(36, 32, 26, 5, 4) >>)
      [] p = 26 -> Pos(BLACK, FALSE, 30, FALSE, 26, << Quiet(7, 8, 8) >>)]

\* positions where the 75-move rule or fivefold repetition ends the game
SeventyFive == {20}
\* positions with insufficient material
Insufficient == {16}
\* positions that are a repetition-so-far or whose 50-move counter is exhausted
Drawn == {19, 20}
\* the positions callers hand to search, and those they hand to negamax
Roots == {1, 5, 8, 10}
NegamaxRoots == {10, 19}
\* the positions callers hand to quiescence_search
QuiescenceRoots == {21}
\* the depths callers of negamax pass
NegamaxDepths == {0, 1, 2, 3}

\* a chess.Board: the current position and the move stack (each entry
\* remembers what board.pop() restores)
NewBoard(p) == [pos |-> p, stack |-> << >>]
push(b, m, d) ==
  [pos |-> d, stack |-> Append(b.stack, [mv |-> m, prev |-> b.pos])]
\* a board.pop() that is left out: the move stays on the board
pop_skipped(b) == b
pop(b) ==
  [pos |-> b.stack[Len(b.stack)].prev,
   stack |-> SubSeq(b.stack, 1, Len(b.stack) - 1)]

legal_moves(b) == Game[b.pos].legal
turn(b) == Game[b.pos].turn
is_check(b) == Game[b.pos].check
is_checkmate(b) == is_check(b) /\ Len(legal_moves(b)) = 0
is_stalemate(b) == ~is_check(b) /\ Len(legal_moves(b)) = 0
is_insufficient_material(b) == b.pos \in Insufficient
is_game_over(b) ==
  \/ is_checkmate(b)
  \/ is_stalemate(b)
  \/ is_insufficient_material(b)
  \/ b.pos \in SeventyFive
is_draw_so_far(b) == b.pos \in Drawn
\* board.fen(): the position without the move stack
fen(b) == b.pos

(* ---------------------------------------------------------------------- *)
(* Evaluator.evaluate                                                      *)
(* ---------------------------------------------------------------------- *)
\* the sum of the evaluation terms, from White's perspective
WhiteScore(b) == Game[b.pos].score

evaluate(b) ==
  IF is_checkmate(b) THEN (IF turn(b) THEN -MATE_VALUE ELSE MATE_VALUE)
  ELSE IF is_stalemate(b) \/ is_insufficient_material(b) THEN 0
  ELSE IF turn(b) THEN WhiteScore(b) ELSE -WhiteScore(b)


(* ---------------------------------------------------------------------- *)
(* State of one SearchEngine and of the call in flight                     *)
(* ---------------------------------------------------------------------- *)
VARIABLES
  board,                \* the chess.Board the caller passed (mutated in place)
  frames,               \* the Python call stack of negamax / quiescence_search
  ret,                  \* << v >>: the value the last finished call returned
  exc,                  \* TRUE while TimeoutError propagates
  expired,              \* time.time() - start_time > max_time
  nodes_searched,
  best_move_found,
  transposition_table,  \* fen |-> [depth, value, move]
  history_table,        \* << from, to >> |-> score
  killer_moves,         \* ply |-> << first, second >>
  pv_table,             \* << ply, depth >> |-> move
  phase,                \* "idle", "search", "fallback", "direct"
  current_depth,
  max_depth,
  result,               \* what the last top-level call gave its caller
  calls,                \* number of top-level calls made so far
  callBoard,            \* the board as it was when the call was made
  rootBest,             \* best_move of the root negamax call of this search
  lastRet               \* the last return of negamax / quiescence_search

vars ==
  << board, frames, ret, exc, expired, nodes_searched, best_move_found,
     transposition_table, history_table, killer_moves, pv_table, phase,
     current_depth, max_depth, result, calls, callBoard, rootBest, lastRet >>

tables == << transposition_table, history_table, killer_moves, pv_table >>
control == << phase, current_depth, max_depth, result, calls, callBoard >>

NoKillers == << NoMove, NoMove >>
KillersAt(ply) ==
  IF ply \in DOMAIN killer_moves THEN killer_moves[ply] ELSE NoKillers
PvAt(ply, depth) ==
  IF << ply, depth >> \in DOMAIN pv_table THEN pv_table[<< ply, depth >>]
  ELSE NoMove
HistoryAt(key) ==
  IF key \in DOMAIN history_table THEN history_table[key] ELSE 0

\* dict / list assignment: d[k] = v
Put(d, k, v) == [x \in DOMAIN d \cup {k} |-> IF x = k THEN v ELSE d[x]]
Empty == [x \in {} |-> 0]

(* ---------------------------------------------------------------------- *)
(* Move ordering                                                           *)
(* ---------------------------------------------------------------------- *)
get_move_score(b, e, ply) ==
  IF PvAt(0, ply) = e.mv THEN PV_SCORE
  ELSE IF fen(b) \in DOMAIN transposition_table
          /\ transposition_table[fen(b)].move = e.mv THEN HASH_SCORE
  ELSE IF e.cap THEN
         (IF e.att # 0 /\ e.vic # 0
          THEN CAPTURE_SCORE + (e.vic * VICTIM_FACTOR - e.att) ELSE 0)
  ELSE IF e.mv = KillersAt(ply)[1] \/ e.mv = KillersAt(ply)[2] THEN
         KILLER_SCORE + (IF e.mv = KillersAt(ply)[1]
                         THEN KILLER_FIRST_BONUS ELSE 0)
  ELSE HistoryAt(<< e.mv.from, e.mv.to >>)

\* list.sort(key, reverse=True) is stable: x goes behind every entry whose
\* score is at least its own
StableInsert(sorted, x) ==
  LET later == {i \in 1..Len(sorted) : sorted[i].score < x.score}
      at == IF later = {} THEN Len(sorted) + 1
            ELSE CHOOSE i \in later : \A j \in later : i <= j
  IN SubSeq(sorted, 1, at - 1) \o << x >> \o SubSeq(sorted, at, Len(sorted))

RECURSIVE SortByScore(_)
SortByScore(s) ==
  IF s = << >> THEN << >>
  ELSE StableInsert(SortByScore(SubSeq(s, 1, Len(s) - 1)), s[Len(s)])

order_moves(b, moves, ply) ==
  LET scored == [i \in 1..Len(moves) |->
                   [e |-> moves[i], score |-> get_move_score(b, moves[i], ply)]]
      sorted == SortByScore(scored)
  IN [i \in 1..Len(sorted) |-> sorted[i].e]

update_history_score(h, m, depth) ==
  LET key == << m.from, m.to >>
  IN Put(h, key, (IF key \in DOMAIN h THEN h[key] ELSE 0) + depth * depth)

update_killer_moves(k, m, ply) ==
  LET cur == IF ply \in DOMAIN k THEN k[ply] ELSE NoKillers
  IN IF m # cur[1] THEN Put(k, ply, << m, cur[1] >>) ELSE k

store_pv_move(pv, m, ply, depth) == Put(pv, << ply, depth >>, m)

should_stop_search == expired

(* ---------------------------------------------------------------------- *)
(* Pruning predicates                                                      *)
(* ---------------------------------------------------------------------- *)
static_null_move_pruning(b, beta, depth) ==
  IF depth < SNMP_DEPTH \/ is_check(b) THEN FALSE
  ELSE evaluate(b) - SNMP_MARGIN * depth >= beta

reverse_futility_pruning(b, alpha, depth) ==
  IF depth < RFP_DEPTH \/ is_check(b) THEN FALSE
  ELSE evaluate(b) + RFP_MARGIN * depth <= alpha

can_do_null_move(b) ==
  IF is_check(b) THEN FALSE ELSE Game[b.pos].majors

is_capture_worth_searching(b, e, alpha) ==
  LET victim_value == IF e.vic # 0 THEN PIECE_VALUES[e.vic] ELSE 0
  IN ~(evaluate(b) + victim_value + CAPTURE_MARGIN < alpha)


(* ---------------------------------------------------------------------- *)
(* Call frames                                                             *)
(* ---------------------------------------------------------------------- *)
Frame(fn, depth, alpha, beta, ply, is_root, b) ==
  [fn |-> fn, pc |-> "enter", depth |-> depth, alpha |-> alpha,
   beta |-> beta, original_alpha |-> alpha, ply |-> ply,
   is_root |-> is_root, is_pv |-> FALSE, board_hash |-> 0,
   in_check |-> FALSE, moves |-> << >>, idx |-> 0, best_value |-> -Inf,
   best_move |-> NoMove, at |-> b]

top == frames[Len(frames)]
Running(fn, pc) ==
  /\ frames # << >>
  /\ ~exc
  /\ top.fn = fn
  /\ top.pc = pc
Returned(fn, pc) == Running(fn, pc) /\ ret # << >>
SetTop(f) == [frames EXCEPT ![Len(frames)] = f]
Front(s) == SubSeq(s, 1, Len(s) - 1)

NoRet ==
  [fn |-> "none", at |-> NewBoard(1), now |-> NewBoard(1), depth |-> 0,
   alpha |-> 0, beta |-> 0, is_pv |-> FALSE, value |-> 0, via |-> "none"]

\* the frame on top returns v to its caller
Return(v, via, b) ==
  /\ frames' = Front(frames)
  /\ ret' = << v >>
  /\ lastRet' = [fn |-> top.fn, at |-> top.at, now |-> b,
                 depth |-> top.depth, alpha |-> top.original_alpha,
                 beta |-> top.beta, is_pv |-> top.is_pv, value |-> v,
                 via |-> via]

\* the frame on top, updated to f, calls callee
Call(f, callee) ==
  /\ frames' = Append(SetTop(f), callee)
  /\ ret' = << >>
  /\ lastRet' = lastRet

\* the frame on top goes on as f
Goto(f) ==
  /\ frames' = SetTop(f)
  /\ ret' = << >>
  /\ lastRet' = lastRet

(* ---------------------------------------------------------------------- *)
(* negamax                                                                 *)
(* ---------------------------------------------------------------------- *)
\* the lookup as it would be with "stored_depth > depth"
ProbeHitDeeper(f, h) ==
  /\ ~f.is_root
  /\ h \in DOMAIN transposition_table
  /\ transposition_table[h].depth > f.depth

\* the transposition-table lookup of negamax serves the stored value
ProbeHit(f, h) ==
  /\ ~f.is_root
  /\ h \in DOMAIN transposition_table
  /\ transposition_table[h].depth >= f.depth

NegamaxEnter ==
  /\ Running("negamax", "enter")
  /\ nodes_searched' = nodes_searched + 1
  /\ IF should_stop_search
     THEN /\ exc' = TRUE
          /\ UNCHANGED << frames, ret, lastRet >>
     ELSE /\ exc' = FALSE
          /\ Goto([top EXCEPT !.pc = "probe"])
  /\ UNCHANGED << board, expired, best_move_found, tables, control, rootBest >>

NegamaxProbe ==
  /\ Running("negamax", "probe")
  /\ LET f == [top EXCEPT !.is_pv = top.beta > top.alpha + 1,
                          !.board_hash = fen(board)]
     IN IF ProbeHit(f, f.board_hash)
        THEN /\ frames' = Front(frames)
             /\ ret' = << transposition_table[f.board_hash].value >>
             /\ lastRet' = [fn |-> f.fn, at |-> f.at, now |-> board,
                            depth |-> f.depth, alpha |-> f.original_alpha,
                            beta |-> f.beta, is_pv |-> f.is_pv,
                            value |-> transposition_table[f.board_hash].value,
                            via |-> "tt"]
        ELSE Goto([f EXCEPT !.pc = "horizon"])
  /\ UNCHANGED << board, exc, expired, nodes_searched, best_move_found,
                  tables, control, rootBest >>

NegamaxHorizon ==
  /\ Running("negamax", "horizon")
  /\ LET f == [top EXCEPT !.in_check = is_check(board)]
     IN IF f.depth <= 0 \/ is_game_over(board)
        THEN Call([f EXCEPT !.pc = "qsret"],
                  Frame("quiescence_search", QS_DEPTH, f.alpha, f.beta, 0, FALSE,
                        board))
        ELSE Goto([f EXCEPT !.pc = "prune"])
  /\ UNCHANGED << board, exc, expired, nodes_searched, best_move_found,
                  tables, control, rootBest >>

NegamaxQsRet ==
  /\ Returned("negamax", "qsret")
  /\ Return(ret[1], "quiescence", board)
  /\ UNCHANGED << board, exc, expired, nodes_searched, best_move_found,
                  tables, control, rootBest >>

NegamaxPrune ==
  /\ Running("negamax", "prune")
  /\ IF static_null_move_pruning(board, top.beta, top.depth)
     THEN Return(top.beta, "static_null_move", board)
     ELSE IF reverse_futility_pruning(board, top.alpha, top.depth)
     THEN Return(top.alpha, "reverse_futility", board)
     ELSE Goto([top EXCEPT !.pc = "null"])
  /\ UNCHANGED << board, exc, expired, nodes_searched, best_move_found,
                  tables, control, rootBest >>

NegamaxNull ==
  /\ Running("negamax", "null")
  /\ IF /\ ~top.is_pv
        /\ top.depth >= NULL_MOVE_DEPTH
        /\ ~top.in_check
        /\ can_do_null_move(board)
     THEN /\ board' = push(board, NullMove, Game[board.pos].nullDest)
          /\ Call([top EXCEPT !.pc = "nullret"],
                  Frame("negamax", top.depth - 1 - NULL_MOVE_R, -top.beta,
                        -top.beta + 1, top.ply + 1, FALSE, board'))
     ELSE /\ board' = board
          /\ Goto([top EXCEPT !.pc = "gen"])
  /\ UNCHANGED << exc, expired, nodes_searched, best_move_found, tables,
                  control, rootBest >>

NegamaxNullRet ==
  /\ Returned("negamax", "nullret")
  /\ board' = pop(board)
  /\ IF -ret[1] >= top.beta
     THEN Return(top.beta, "null_move", board')
     ELSE Goto([top EXCEPT !.pc = "gen"])
  /\ UNCHANGED << exc, expired, nodes_searched, best_move_found, tables,
                  control, rootBest >>

NegamaxGen ==
  /\ Running("negamax", "gen")
  /\ Goto([top EXCEPT !.moves = order_moves(board, legal_moves(board), top.ply),
                      !.best_value = -Inf,
                      !.best_move = NoMove,
                      !.idx = 1,
                      !.pc = "loop"])
  /\ UNCHANGED << board, exc, expired, nodes_searched, best_move_found,
                  tables, control, rootBest >>

\* move_index is idx - 1: enumerate counts from 0
do_lmr(f, e) ==
  /\ f.depth >= LMR_DEPTH
  /\ f.idx - 1 >= LMR_MOVES
  /\ ~f.in_check
  /\ ~e.cap
  /\ ~e.chk
  /\ ~f.is_pv

NegamaxLoop ==
  /\ Running("negamax", "loop")
  /\ IF top.idx > Len(top.moves)
     THEN /\ board' = board
          /\ Goto([top EXCEPT !.pc = "store"])
     ELSE LET e == top.moves[top.idx]
              reduction == 1 + (IF top.idx - 1 > LMR_DEEP_INDEX THEN 1 ELSE 0)
              d == IF do_lmr(top, e) THEN top.depth - 1 - reduction
                   ELSE top.depth - 1
          IN /\ board' = push(board, e.mv, e.dest)
             /\ Call([top EXCEPT !.pc = IF do_lmr(top, e) THEN "lmrret"
                                        ELSE "fullret"],
                     Frame("negamax", d, -top.beta, -top.alpha, top.ply + 1,
                           FALSE, board'))
  /\ UNCHANGED << exc, expired, nodes_searched, best_move_found, tables,
                  control, rootBest >>

\* lines 222-237: the move has its value
MoveDone(value) ==
  LET e == top.moves[top.idx]
      better == value > top.best_value
      alpha == Max(top.alpha, value)
      cut == alpha >= top.beta
      f == [top EXCEPT !.best_value = IF better THEN value ELSE @,
                       !.best_move = IF better THEN e.mv ELSE @,
                       !.alpha = alpha,
                       !.idx = IF cut THEN @ ELSE @ + 1,
                       !.pc = IF cut THEN "store" ELSE "loop"]
  IN /\ board' = pop(board)
     /\ best_move_found' = IF better /\ top.is_root THEN e.mv
                           ELSE best_move_found
     /\ rootBest' = IF better /\ Len(frames) = 1 /\ phase = "search"
                    THEN e.mv ELSE rootBest
     /\ killer_moves' = IF cut /\ ~e.cap
                        THEN update_killer_moves(killer_moves, e.mv, top.ply)
                        ELSE killer_moves
     /\ history_table' = IF cut /\ ~e.cap
                         THEN update_history_score(history_table, e.mv,
                                                   top.depth)
                         ELSE history_table
     /\ Goto(f)
     /\ UNCHANGED << exc, expired, nodes_searched, transposition_table,
                     pv_table, control >>

NegamaxLmrRet ==
  /\ Returned("negamax", "lmrret")
  /\ IF -ret[1] > top.alpha
     THEN /\ Call([top EXCEPT !.pc = "fullret"],
                  Frame("negamax", top.depth - 1, -top.beta, -top.alpha,
                        top.ply + 1, FALSE, board))
          /\ UNCHANGED << board, exc, expired, nodes_searched,
                          best_move_found, tables, control, rootBest >>
     ELSE MoveDone(-ret[1])

NegamaxFullRet ==
  /\ Returned("negamax", "fullret")
  /\ MoveDone(-ret[1])

NegamaxStore ==
  /\ Running("negamax", "store")
  /\ pv_table' = IF top.best_move # NoMove
                 THEN store_pv_move(pv_table, top.best_move, top.ply, top.depth)
                 ELSE pv_table
  /\ transposition_table' =
       Put(transposition_table, top.board_hash,
           [depth |-> top.depth, value |-> top.best_value,
            move |-> top.best_move])
  /\ Return(top.best_value, "search", board)
  /\ UNCHANGED << board, exc, expired, nodes_searched, best_move_found,
                  history_table, killer_moves, control, rootBest >>

(* ---------------------------------------------------------------------- *)
(* quiescence_search                                                       *)
(* ---------------------------------------------------------------------- *)
\* a quiescence node that forgets to stand pat
raise_alpha_dropped(alpha, stand_pat) == alpha

\* alpha = max(alpha, stand_pat)
raise_alpha(alpha, stand_pat) == Max(alpha, stand_pat)

QsEnter ==
  /\ Running("quiescence_search", "enter")
  /\ LET stand_pat == evaluate(board)
     IN IF stand_pat >= top.beta
        THEN Return(top.beta, "stand_pat", board)
        ELSE IF stand_pat < top.alpha - DELTA_MARGIN
        THEN Return(top.alpha, "delta", board)
        ELSE Goto([top EXCEPT !.alpha = raise_alpha(top.alpha, stand_pat),
                              !.moves = legal_moves(board),
                              !.idx = 1,
                              !.pc = "loop"])
  /\ UNCHANGED << board, exc, expired, nodes_searched, best_move_found,
                  tables, control, rootBest >>

QsLoop ==
  /\ Running("quiescence_search", "loop")
  /\ IF top.idx > Len(top.moves)
     THEN /\ board' = board
          /\ Return(top.alpha, "alpha", board)
     ELSE LET e == top.moves[top.idx]
          IN IF (~e.cap /\ ~e.chk)
                \/ ~is_capture_worth_searching(board, e, top.alpha)
             THEN /\ board' = board
                  /\ Goto([top EXCEPT !.idx = @ + 1])
             ELSE /\ board' = push(board, e.mv, e.dest)
                  /\ Call([top EXCEPT !.pc = "ret"],
                          Frame("quiescence_search", top.depth - 1, -top.beta,
                                -top.alpha, 0, FALSE, board'))
  /\ UNCHANGED << exc, expired, nodes_searched, best_move_found, tables,
                  control, rootBest >>

QsRet ==
  /\ Returned("quiescence_search", "ret")
  /\ board' = pop(board)
  /\ IF -ret[1] >= top.beta
     THEN Return(top.beta, "cutoff", board')
     ELSE Goto([top EXCEPT !.alpha = Max(top.alpha, -ret[1]),
                           !.idx = @ + 1,
                           !.pc = "loop"])
  /\ UNCHANGED << exc, expired, nodes_searched, best_move_found, tables,
                  control, rootBest >>

(* ---------------------------------------------------------------------- *)
(* TimeoutError                                                            *)
(* ---------------------------------------------------------------------- *)
\* no frame of negamax or quiescence_search has a handler or a finally:
\* the exception leaves the frame on top and the board is not touched
Unwind ==
  /\ exc
  /\ frames # << >>
  /\ frames' = Front(frames)
  /\ UNCHANGED << board, ret, exc, expired, nodes_searched, best_move_found,
                  tables, control, rootBest, lastRet >>

\* the clock passes start_time + max_time
Expire ==
  /\ ~expired
  /\ phase # "idle"
  /\ expired' = TRUE
  /\ UNCHANGED << board, frames, ret, exc, nodes_searched, best_move_found,
                  tables, control, rootBest, lastRet >>


(* ---------------------------------------------------------------------- *)
(* search (the definition at lines 113-132, which replaces the one at      *)
(* lines 32-52) and direct calls of negamax                                *)
(* ---------------------------------------------------------------------- *)
NoResult ==
  [op |-> "none", kind |-> "none", move |-> NoMove, score |-> 0, error |-> ""]

\* the (alpha, beta) windows a caller of negamax passes
Windows ==
  { << -Inf, Inf >>, << 0, 1 >>, << 400, 401 >>, << -1000, -400 >> }

\* lines 114-120; the budget is positive, so the clock starts unexpired
Search(p, d) ==
  /\ phase = "idle"
  /\ calls < MaxCalls
  /\ calls' = calls + 1
  /\ board' = NewBoard(p)
  /\ callBoard' = NewBoard(p)
  /\ nodes_searched' = 0
  /\ expired' = FALSE
  /\ best_move_found' = NoMove
  /\ rootBest' = NoMove
  /\ current_depth' = 1
  /\ max_depth' = d
  /\ phase' = "search"
  /\ result' = NoResult
  /\ UNCHANGED << frames, ret, exc, tables, lastRet >>

\* line 124: negamax(board, current_depth, alpha, beta, True); the fifth
\* positional parameter is ply, so ply = True = 1 and is_root keeps its default
SearchPass ==
  /\ phase = "search"
  /\ frames = << >>
  /\ ret = << >>
  /\ ~exc
  /\ current_depth <= max_depth
  /\ frames' = << Frame("negamax", current_depth, -Inf, Inf, START_PLY, FALSE,
                        board) >>
  /\ UNCHANGED << board, ret, exc, expired, nodes_searched, best_move_found,
                  tables, control, rootBest, lastRet >>

SearchPassDone ==
  /\ phase = "search"
  /\ frames = << >>
  /\ ret # << >>
  /\ ~exc
  /\ ret' = << >>
  /\ current_depth' = current_depth + 1
  /\ UNCHANGED << board, frames, exc, expired, nodes_searched,
                  best_move_found, tables, phase, max_depth, result, calls,
                  callBoard, rootBest, lastRet >>

\* except TimeoutError: break
SearchCatch ==
  /\ phase = "search"
  /\ frames = << >>
  /\ exc
  /\ exc' = FALSE
  /\ phase' = "fallback"
  /\ UNCHANGED << board, frames, ret, expired, nodes_searched,
                  best_move_found, tables, current_depth, max_depth, result,
                  calls, callBoard, rootBest, lastRet >>

\* lines 129-132
SearchFinish ==
  /\ \/ phase = "fallback"
     \/ /\ phase = "search"
        /\ frames = << >>
        /\ ret = << >>
        /\ ~exc
        /\ current_depth > max_depth
  /\ phase' = "idle"
  /\ IF best_move_found = NoMove /\ Len(legal_moves(board)) = 0
     THEN /\ result' = [op |-> "search", kind |-> "error", move |-> NoMove,
                        score |-> 0, error |-> "IndexError"]
          /\ best_move_found' = best_move_found
     ELSE /\ best_move_found' = IF best_move_found = NoMove
                                THEN legal_moves(board)[1].mv
                                ELSE best_move_found
          /\ result' = [op |-> "search", kind |-> "move",
                        move |-> best_move_found', score |-> evaluate(board),
                        error |-> ""]
  /\ UNCHANGED << board, frames, ret, exc, expired, nodes_searched, tables,
                  current_depth, max_depth, calls, callBoard, rootBest,
                  lastRet >>

\* a caller uses negamax itself, with the default is_root
NegamaxCall(p, depth, w) ==
  /\ phase = "idle"
  /\ calls < MaxCalls
  /\ calls' = calls + 1
  /\ board' = NewBoard(p)
  /\ callBoard' = NewBoard(p)
  /\ phase' = "direct"
  /\ result' = NoResult
  /\ frames' = << Frame("negamax", depth, w[1], w[2], START_PLY, FALSE,
                        board') >>
  /\ UNCHANGED << ret, exc, expired, nodes_searched, best_move_found, tables,
                  current_depth, max_depth, rootBest, lastRet >>

NegamaxReturned ==
  /\ phase = "direct"
  /\ frames = << >>
  /\ ret # << >>
  /\ ~exc
  /\ ret' = << >>
  /\ phase' = "idle"
  /\ result' = [op |-> "negamax", kind |-> "value", move |-> NoMove,
                score |-> ret[1], error |-> ""]
  /\ UNCHANGED << board, frames, exc, expired, nodes_searched,
                  best_move_found, tables, current_depth, max_depth, calls,
                  callBoard, rootBest, lastRet >>

NegamaxRaised ==
  /\ phase = "direct"
  /\ frames = << >>
  /\ exc
  /\ exc' = FALSE
  /\ phase' = "idle"
  /\ result' = [op |-> "negamax", kind |-> "error", move |-> NoMove,
                score |-> 0, error |-> "TimeoutError"]
  /\ UNCHANGED << board, frames, ret, expired, nodes_searched,
                  best_move_found, tables, current_depth, max_depth, calls,
                  callBoard, rootBest, lastRet >>

\* a client calls quiescence_search(board, alpha, beta): depth takes its
\* default
QuiescenceCall(p, w) ==
  /\ phase = "idle"
  /\ calls < MaxCalls
  /\ calls' = calls + 1
  /\ board' = NewBoard(p)
  /\ callBoard' = NewBoard(p)
  /\ phase' = "quiescence"
  /\ result' = NoResult
  /\ frames' = << Frame("quiescence_search", QS_DEPTH, w[1], w[2], 0, FALSE,
                        board') >>
  /\ UNCHANGED << ret, exc, expired, nodes_searched, best_move_found, tables,
                  current_depth, max_depth, rootBest, lastRet >>

QuiescenceReturned ==
  /\ phase = "quiescence"
  /\ frames = << >>
  /\ ret # << >>
  /\ ret' = << >>
  /\ phase' = "idle"
  /\ result' = [op |-> "quiescence_search", kind |-> "value", move |-> NoMove,
                score |-> ret[1], error |-> ""]
  /\ UNCHANGED << board, frames, exc, expired, nodes_searched,
                  best_move_found, tables, current_depth, max_depth, calls,
                  callBoard, rootBest, lastRet >>

(* ---------------------------------------------------------------------- *)
(* The specification                                                       *)
(* ---------------------------------------------------------------------- *)
\* SearchEngine.__init__: start_time = max_time = 0, so the clock reads
\* expired until a search sets it
Init ==
  /\ board = NewBoard(1)
  /\ callBoard = NewBoard(1)
  /\ frames = << >>
  /\ ret = << >>
  /\ exc = FALSE
  /\ expired = TRUE
  /\ nodes_searched = 0
  /\ best_move_found = NoMove
  /\ transposition_table = Empty
  /\ history_table = Empty
  /\ killer_moves = Empty
  /\ pv_table = Empty
  /\ phase = "idle"
  /\ current_depth = 0
  /\ max_depth = 0
  /\ result = NoResult
  /\ calls = 0
  /\ rootBest = NoMove
  /\ lastRet = NoRet

Next ==
  \/ \E p \in Roots, d \in 1..MaxDepth : Search(p, d)
  \/ SearchPass
  \/ SearchPassDone
  \/ SearchCatch
  \/ SearchFinish
  \/ \E p \in NegamaxRoots, d \in NegamaxDepths, w \in Windows :
       NegamaxCall(p, d, w)
  \/ NegamaxReturned
  \/ NegamaxRaised
  \/ \E p \in QuiescenceRoots, w \in Windows : QuiescenceCall(p, w)
  \/ QuiescenceReturned
  \/ NegamaxEnter
  \/ NegamaxProbe
  \/ NegamaxHorizon
  \/ NegamaxQsRet
  \/ NegamaxPrune
  \/ NegamaxNull
  \/ NegamaxNullRet
  \/ NegamaxGen
  \/ NegamaxLoop
  \/ NegamaxLmrRet
  \/ NegamaxFullRet
  \/ NegamaxStore
  \/ QsEnter
  \/ QsLoop
  \/ QsRet
  \/ Unwind
  \/ Expire

Spec == Init /\ [][Next]_vars


(* ---------------------------------------------------------------------- *)
(* The claims                                                              *)
(* ---------------------------------------------------------------------- *)
\* a call of search has ended (by returning or by raising)
SearchEnded == phase = "idle" /\ result.op = "search"
HadLegalMove == Len(legal_moves(callBoard)) > 0
IsLegal(p, m) == \E i \in 1..Len(Game[p].legal) : Game[p].legal[i].mv = m
\* m is legal in position p and mates
IsMatingMove(p, m) ==
  \E i \in 1..Len(Game[p].legal) :
    /\ Game[p].legal[i].mv = m
    /\ is_checkmate(NewBoard(Game[p].legal[i].dest))
HasMateInOne(p) ==
  \E i \in 1..Len(Game[p].legal) : IsMatingMove(p, Game[p].legal[i].mv)

\* C1: after search returns, whether every pass completed or a pass was
\* cancelled at any node, the board and its move stack are what they were
\* when search was called.
C1_PositionRestored == SearchEnded => board = callBoard

\* C2: for a position with a legal move, the move search returns is legal in
\* the position as it was when search was called, whatever node the budget
\* expires at.
C2_ReturnsLegalMove ==
  (SearchEnded /\ HadLegalMove /\ result.kind = "move")
    => IsLegal(callBoard.pos, result.move)

\* C3: called on a position with no legal move, search returns no move and
\* ends by signalling the no-legal-move error condition of its own.
C3_SignalsNoLegalMove ==
  (SearchEnded /\ ~HadLegalMove)
    => (result.kind = "error" /\ result.error = "NoLegalMoveError")

\* C4: for a position with a legal move search never ends with an error: a
\* cancellation is absorbed by the loop and a (move, score) pair is returned.
C4_NeverErrors == (SearchEnded /\ HadLegalMove) => result.kind = "move"

\* C5: the move search returns is the root move negamax selected as best in
\* the last pass that ran (stated for the searches that return a move and leave
\* the board as they found it, so that it does not rest on C1).
C5_ReturnsRootBest ==
  (SearchEnded /\ result.kind = "move" /\ board = callBoard
     /\ rootBest # NoMove)
    => result.move = rootBest

\* C6: where the side to move can mate at once, search with max_depth >= 2
\* and no expiry of the budget returns a mating move and a score of mate
\* magnitude.
C6_MateInOne ==
  (SearchEnded /\ HasMateInOne(callBoard.pos) /\ max_depth >= 2 /\ ~expired)
    => /\ result.kind = "move"
       /\ IsMatingMove(callBoard.pos, result.move)
       /\ (result.score = MATE_VALUE \/ result.score = -MATE_VALUE)

\* search has run its first lines (114-120) and no pass has started
SearchStarted ==
  /\ phase = "search"
  /\ current_depth = 1
  /\ frames = << >>
  /\ ret = << >>
  /\ ~exc

\* C7: at the start of every search call the transposition table, the killer
\* table, the history table and the PV slot are empty.
C7_TablesEmptyAtStart ==
  SearchStarted
    => /\ transposition_table = Empty
       /\ killer_moves = Empty
       /\ history_table = Empty
       /\ pv_table = Empty

\* C8: negamax on a position that is a repetition-so-far or whose 50-move
\* counter is exhausted returns exactly 0.
C8_DrawReturnsZero ==
  (lastRet.fn = "negamax" /\ is_draw_so_far(lastRet.at)) => lastRet.value = 0

\* a negamax call is at its table lookup, at a non-PV node, and the table
\* holds an entry of at least the requested depth for the position
NonPvProbe ==
  /\ Running("negamax", "probe")
  /\ fen(board) \in DOMAIN transposition_table
  /\ transposition_table[fen(board)].depth >= top.depth
  /\ ~(top.beta > top.alpha + 1)

\* C9: with (d, v, m) stored for a key, a negamax call on that key at depth
\* <= d at a non-PV node that gets past the time poll returns exactly v, and
\* neither moves on the board nor writes the table.
C9_RoundTrip ==
  [][(NonPvProbe /\ frames' # frames)
       => /\ frames' = Front(frames)
          /\ ret' = << transposition_table[fen(board)].value >>
          /\ board' = board
          /\ tables' = tables]_vars

\* a non-PV call of depth 1 has just been served the value stored at depth 2
C9_Witness ==
  /\ lastRet.fn = "negamax"
  /\ lastRet.via = "tt"
  /\ ~lastRet.is_pv
  /\ lastRet.depth = 1
  /\ fen(lastRet.at) \in DOMAIN transposition_table
  /\ transposition_table[fen(lastRet.at)].depth = 2
  /\ ret = << transposition_table[fen(lastRet.at)].value >>

\* C10: negamax returns a table value only at a node that is not a
\* principal-variation node; at a PV node the table is never consulted for a
\* return value.
C10_ProbeOnlyNonPv == lastRet.via = "tt" => ~lastRet.is_pv

\* the last call that returned normally was quiescence_search, entered with
\* alpha < beta
QsReturned ==
  /\ lastRet.fn = "quiescence_search"
  /\ lastRet.alpha < lastRet.beta

\* C11 as stated: for every call quiescence_search(position, alpha, beta) with
\* alpha < beta the returned value is at most beta and at least the stand-pat
\* score of the position minus DELTA_MARGIN.
C11_AsStated ==
  QsReturned =>
    /\ lastRet.value <= lastRet.beta
    /\ lastRet.value >= evaluate(lastRet.at) - DELTA_MARGIN

\* C11 amended: the returned value is at most beta; it is at least the
\* stand-pat score minus DELTA_MARGIN whenever the stand-pat score is below
\* beta, and it is beta itself when the stand-pat score reaches beta.
C11_QuiescenceBounds ==
  QsReturned =>
    /\ lastRet.value <= lastRet.beta
    /\ evaluate(lastRet.at) < lastRet.beta
         => lastRet.value >= evaluate(lastRet.at) - DELTA_MARGIN
    /\ evaluate(lastRet.at) >= lastRet.beta => lastRet.value = lastRet.beta

\* a quiescence call whose stand-pat score is more than DELTA_MARGIN above
\* beta has returned beta
C11_Witness ==
  /\ QsReturned
  /\ lastRet.via = "stand_pat"
  /\ evaluate(lastRet.at) - DELTA_MARGIN > lastRet.beta
  /\ lastRet.value = lastRet.beta

\* the tier of a move of the node on top: 4 for the stored PV move, 3 for the
\* transposition-table move, 2 for a capture, 1 for any other (quiet) move
Tier(e) ==
  IF PvAt(0, top.ply) = e.mv THEN 4
  ELSE IF fen(board) \in DOMAIN transposition_table
          /\ transposition_table[fen(board)].move = e.mv THEN 3
  ELSE IF e.cap THEN 2
  ELSE 1

\* negamax has just ordered the moves of the node on top
JustOrdered ==
  /\ Running("negamax", "loop")
  /\ top.idx = 1

\* C12: in the list order_moves returns the tiers are strict: the PV move
\* precedes the transposition-table move, which precedes every capture (en
\* passant included), which precedes every quiet move that is neither of the
\* two (killers, history moves), whatever the history values.
C12_TiersStrict ==
  JustOrdered =>
    \A i, j \in 1..Len(top.moves) :
      i < j => Tier(top.moves[i]) >= Tier(top.moves[j])

\* a node of fn has just been entered and the budget has already run out
EnteredExpired(fn) ==
  /\ Running(fn, "enter")
  /\ expired

\* C13: the time budget is polled at every visited node of negamax and of
\* quiescence_search: once the budget has run out, the next node entered in
\* either routine raises the cancellation before it evaluates the position or
\* expands a move.
C13_PollEveryNode ==
  [][\A fn \in {"negamax", "quiescence_search"} :
       (EnteredExpired(fn) /\ frames' # frames) => exc']_vars

\* the ways negamax returns early through pruning
Prunings == { "static_null_move", "reverse_futility", "null_move" }

\* C14: negamax returns early through static null-move (reverse futility)
\* pruning, null-move pruning or futility pruning only at non-PV nodes
\* (beta = alpha + 1) where the side to move is not in check; at a PV node
\* none of these prunings fires.
C14_PruneOnlyNonPv ==
  (lastRet.fn = "negamax" /\ lastRet.via \in Prunings) =>
    /\ lastRet.beta = lastRet.alpha + 1
    /\ ~is_check(lastRet.at)

\* the number of quiescence_search calls nested in one another
QsChain ==
  Cardinality({i \in 1..Len(frames) : frames[i].fn = "quiescence_search"})

\* C15: quiescence_search is depth-limited: the chain of nested quiescence
\* calls never exceeds its depth parameter (4 by default) below the outermost
\* call, so every call terminates however long captures and checks go on.
C15_DepthLimited == QsChain <= QS_DEPTH + 1

\* a call of negamax or quiescence_search has returned normally
CallReturned == lastRet.fn \in { "negamax", "quiescence_search" }

\* C16: whenever a call of negamax or quiescence_search returns normally, the
\* position and the length of the move stack are those of the call's entry:
\* every push is matched by exactly one pop, at null-move cutoffs, late-move
\* reduction re-searches and beta cutoffs too.
C16_PushPopBalanced ==
  CallReturned =>
    /\ lastRet.now.pos = lastRet.at.pos
    /\ Len(lastRet.now.stack) = Len(lastRet.at.stack)
    /\ lastRet.now = lastRet.at

\* negamax has returned through a null-move cutoff: the null move was pushed,
\* searched and popped, and the board is the one the call was entered with
C16_Witness ==
  /\ lastRet.fn = "negamax"
  /\ lastRet.via = "null_move"
  /\ lastRet.now = lastRet.at
  /\ board = lastRet.at

====
